---- MODULE Spec2Model ----
(***************************************************************************)
(* A model of the CHIP-8 interpreter core of src/src/processor.rs and of   *)
(* the driving loop of src/src/main.rs.                                    *)
(*                                                                         *)
(* The state is the CPU struct, field by field.  A panic (panic!,          *)
(* unimplemented!, an out-of-bounds index, a checked arithmetic overflow)  *)
(* ends the process: it is recorded in `panicked`, after which no cycle    *)
(* runs.  Whether u8/usize arithmetic overflow panics or wraps depends on  *)
(* the build profile; `overflow_checks` is that profile, chosen once.      *)
(***************************************************************************)
EXTENDS Integers, Naturals, Sequences, FiniteSets, TLC

VARIABLES
    opcode,           \* CPU.opcode: u16
    memory,           \* CPU.memory: [u8; 4096], as the bytes load wrote (see mem)
    v,                \* CPU.v: [u8; 16]
    i,                \* CPU.i: u8
    pc,               \* CPU.pc: usize
    delay_timer,      \* CPU.delay_timer: u8
    sound_timer,      \* CPU.sound_timer: u8
    stack,            \* CPU.stack: [usize; 16]
    sp,               \* CPU.sp: usize
    key,              \* CPU.key: [bool; 16]
    gfx,              \* CPU.gfx: [[u8; 64]; 32], as the set of lit pixels (see pixel)
    draw_flag,        \* CPU.draw_flag: bool
    keypad,           \* CPU.keypad: [bool; 16]
    keypad_waiting,   \* CPU.keypad_waiting: bool
    keypad_register,  \* CPU.keypad_register: usize
    panicked,         \* the process has died on a panic
    overflow_checks,  \* build profile: TRUE = arithmetic overflow panics (debug)
    main_pc,          \* position of main(): "load" or "loop"
    polled,           \* main's local `keypad`: the snapshot input.poll() returned last
    cycles            \* number of calls of cpu.cycle made by main's loop

vars == <<opcode, memory, v, i, pc, delay_timer, sound_timer, stack, sp, key,
          gfx, draw_flag, keypad, keypad_waiting, keypad_register, panicked,
          overflow_checks, main_pc, polled, cycles>>

----------------------------------------------------------------------------
(* Bounds of the model *)

\* longest enumerated ROM, in 16-bit instruction words
MaxRomWords == 2
\* number of cycles main's loop is followed for
MaxCycles == 4
\* most keys held down in one keypad snapshot
MaxKeysDown == 2

(* Sizes fixed by the program *)
MemSize == 4096
NumRegs == 16
StackSize == 16
GfxRows == 32
GfxCols == 64
RomBufferSize == 3584
ProgramStart == 512

----------------------------------------------------------------------------
(* Bit operations on naturals *)

RECURSIVE BitAnd(_, _)
BitAnd(a, b) ==
    IF a = 0 \/ b = 0 THEN 0
    ELSE (a % 2) * (b % 2) + 2 * BitAnd(a \div 2, b \div 2)

RECURSIVE BitOr(_, _)
BitOr(a, b) ==
    IF a = 0 THEN b
    ELSE IF b = 0 THEN a
    ELSE (IF a % 2 = 1 \/ b % 2 = 1 THEN 1 ELSE 0) + 2 * BitOr(a \div 2, b \div 2)

RECURSIVE BitXor(_, _)
BitXor(a, b) ==
    IF a = 0 THEN b
    ELSE IF b = 0 THEN a
    ELSE ((a + b) % 2) + 2 * BitXor(a \div 2, b \div 2)

Shr(a, n) == a \div (2 ^ n)

\* `as u8`: truncation to the low 8 bits
AsU8(a) == a % 256

----------------------------------------------------------------------------
(* The font: font::FONT_SET is used by init_ram but its file is not part   *)
(* of the sources; the classic 16 glyphs of 5 bytes each stand for it.     *)

FONT_SET ==
    << \hF0, \h90, \h90, \h90, \hF0,    \h20, \h60, \h20, \h20, \h70,
       \hF0, \h10, \hF0, \h80, \hF0,    \hF0, \h10, \hF0, \h10, \hF0,
       \h90, \h90, \hF0, \h10, \h10,    \hF0, \h80, \hF0, \h10, \hF0,
       \hF0, \h80, \hF0, \h90, \hF0,    \hF0, \h10, \h20, \h40, \h40,
       \hF0, \h90, \hF0, \h90, \hF0,    \hF0, \h90, \hF0, \h10, \hF0,
       \hF0, \h90, \hF0, \h90, \h90,    \hE0, \h90, \hE0, \h90, \hE0,
       \hF0, \h80, \h80, \h80, \hF0,    \hE0, \h90, \h90, \h90, \hE0,
       \hF0, \h80, \hF0, \h80, \hF0,    \hF0, \h80, \hF0, \h80, \h80 >>

\* fn init_ram: zeroed ram with the font copied to its start
init_ram ==
    [a \in 0 .. MemSize - 1 |-> IF a < Len(FONT_SET) THEN FONT_SET[a + 1] ELSE 0]

(* Memory is written by init_ram and by load only (no implemented          *)
(* instruction stores to it).  The variable `memory` holds the bytes load  *)
(* copied from the file, by address; every other address still holds its  *)
(* init_ram value.  mem(m, a) is the array element memory[a].              *)
mem(m, a) == IF a \in DOMAIN m THEN m[a] ELSE init_ram[a]

(* Pixels are only ever 0 or 1.  The variable `gfx` holds the set of       *)
(* <<row, column>> whose pixel is 1.  pixel(g, y, x) is gfx[y][x].         *)
pixel(g, y, x) == IF <<y, x>> \in g THEN 1 ELSE 0

set_pixel(g, y, x, value) == IF value = 0 THEN g \ { <<y, x>> } ELSE g \cup { <<y, x>> }

\* the memory a fresh CPU starts with: nothing written over init_ram
NothingLoaded == [a \in {} |-> 0]

----------------------------------------------------------------------------
(* ROM images handed to load *)

\* the end-to-end scenario 6005 6103 8014 00E0
ScenarioRom == << \h6005, \h6103, \h8014, \h00E0 >>

\* instruction words the enumerated ROMs are built from
RomWords ==
    { \h00E0, \h00EE, \h1FFF, \h2202,
      \h6105, \h6080, \h608E, \h601F,
      \h7105, \h70FF,
      \h8004, \h8124, \h8555, \h8666, \h8EEE,
      \h9121,
      \hA123,
      \hC003,
      \hD000, \hD001,
      \hF007, \hF00A, \hF015, \hF018, \hF01E }

RECURSIVE SeqsUpTo(_, _)
SeqsUpTo(S, n) ==
    IF n = 0 THEN { <<>> }
    ELSE LET shorter == SeqsUpTo(S, n - 1)
         IN  shorter \cup { Append(q, w) : q \in shorter, w \in S }

\* a ROM that starts the delay timer and reads it back
TimerRom == << \h6105, \hF015, \hF007 >>

Roms == SeqsUpTo(RomWords, MaxRomWords) \cup { ScenarioRom, TimerRom }

\* the bytes of a ROM of big-endian instruction words, 0-indexed
RomByte(rom, k) ==
    LET w == rom[(k \div 2) + 1]
    IN  IF k % 2 = 0 THEN w \div 256 ELSE w % 256

----------------------------------------------------------------------------
(* CPU::new *)

Init ==
    /\ opcode = 0
    /\ memory = NothingLoaded
    /\ v = [r \in 0 .. NumRegs - 1 |-> 0]
    /\ i = 0
    /\ pc = ProgramStart
    /\ delay_timer = 0
    /\ sound_timer = 0
    /\ stack = [r \in 0 .. StackSize - 1 |-> 0]
    /\ sp = 0
    /\ key = [r \in 0 .. 15 |-> FALSE]
    /\ gfx = {}
    /\ draw_flag = FALSE
    /\ keypad = [r \in 0 .. 15 |-> FALSE]
    /\ keypad_waiting = FALSE
    /\ keypad_register = 0
    /\ panicked = FALSE
    /\ overflow_checks \in BOOLEAN
    /\ main_pc = "load"
    /\ polled = [k \in 0 .. 15 |-> FALSE]
    /\ cycles = 0

----------------------------------------------------------------------------
(* CPU::load: the file is read into a zeroed 3584-byte buffer, and every   *)
(* buffer byte whose address is below 4096 is copied to memory from 0x200. *)
(* The buffer bytes past the end of the file are zero, as init_ram is      *)
(* there, so only the file's bytes are recorded.                           *)

load(m, rom) ==
    LET nbytes == IF 2 * Len(rom) < RomBufferSize THEN 2 * Len(rom) ELSE RomBufferSize
        written == { a \in ProgramStart .. ProgramStart + nbytes - 1 : a < MemSize }
    IN  [a \in DOMAIN m \cup written |->
            IF a \in written THEN RomByte(rom, a - ProgramStart) ELSE m[a]]

\* main: `cpu.load(file_name)`
Load ==
    /\ main_pc = "load"
    /\ \E rom \in Roms : memory' = load(memory, rom)
    /\ main_pc' = "loop"
    /\ UNCHANGED <<opcode, v, i, pc, delay_timer, sound_timer, stack, sp, key,
                   gfx, draw_flag, keypad, keypad_waiting, keypad_register,
                   panicked, overflow_checks, polled, cycles>>

----------------------------------------------------------------------------
(* The CPU as a value: the handlers below are functions from CPU to CPU.   *)

Self ==
    [ opcode |-> opcode, memory |-> memory, v |-> v, i |-> i, pc |-> pc,
      delay_timer |-> delay_timer, sound_timer |-> sound_timer,
      stack |-> stack, sp |-> sp, gfx |-> gfx, draw_flag |-> draw_flag,
      keypad_waiting |-> keypad_waiting, keypad_register |-> keypad_register,
      panicked |-> panicked, overflow_checks |-> overflow_checks ]

\* panic!, unimplemented!, a failed bounds check or a checked overflow
panic(s) == [s EXCEPT !.panicked = TRUE]

\* fn op_x: `self.opcode & 0x0F00 >> 8`; in Rust >> binds tighter than &
op_x(w) == BitAnd(w, Shr(\h0F00, 8))

\* fn op_y: `self.opcode & 0x00F0 >> 4`
op_y(w) == BitAnd(w, Shr(\h00F0, 4))

\* fn get_opcode: both reads are bounds-checked
get_opcode(s) ==
    IF s.pc + 1 > MemSize - 1
    THEN panic(s)
    ELSE [s EXCEPT !.opcode = mem(s.memory, s.pc) * 256 + mem(s.memory, s.pc + 1)]

----------------------------------------------------------------------------
(* Handlers of run_opcode, one per match arm *)

\* the clear-screen arm without its `self.draw_flag = true`
op_00E0_flag_forgotten(s) == [s EXCEPT !.gfx = {}, !.pc = @ + 2]

\* 0x0000 family, low nibble 0x0: clear the screen
op_00E0(s) ==
    [s EXCEPT !.gfx = {},
              !.draw_flag = TRUE,
              !.pc = @ + 2]

\* 0x0000 family, low nibble 0xE: `self.sp -= 1; self.pc += self.stack[self.sp]`.
\* With sp = 0 the subtraction panics when overflow is checked; otherwise sp
\* wraps to usize::MAX and the index stack[sp] panics.  The process dies in
\* both builds and sp is never read again.
op_00EE(s) ==
    IF s.sp = 0
    THEN panic(s)
    ELSE IF s.sp - 1 > StackSize - 1
    THEN panic([s EXCEPT !.sp = @ - 1])
    ELSE [s EXCEPT !.sp = @ - 1, !.pc = @ + s.stack[s.sp - 1]]

\* 0x1000
op_1NNN(s) == [s EXCEPT !.pc = BitAnd(s.opcode, \h0FFF)]

\* a call whose stack index wraps around instead of being bounds-checked
op_2NNN_wrapping(s) ==
    LET nnn == BitAnd(s.opcode, \h0FFF)
    IN  [s EXCEPT !.stack[s.sp % StackSize] = s.pc + 2,
                  !.sp = (@ % StackSize) + 1,
                  !.pc = nnn]

\* 0x2000
op_2NNN(s) ==
    LET nnn == BitAnd(s.opcode, \h0FFF)
    IN  IF s.sp > StackSize - 1
        THEN panic(s)                                \* stack[sp] is out of bounds
        ELSE [s EXCEPT !.stack[s.sp] = s.pc + 2, !.sp = @ + 1, !.pc = nnn]

\* 0x3000
op_3XNN(s) ==
    IF s.v[op_x(s.opcode)] = BitAnd(AsU8(s.opcode), \h00FF)
    THEN [s EXCEPT !.pc = @ + 4]
    ELSE [s EXCEPT !.pc = @ + 2]

\* 0x6000
op_6XNN(s) ==
    [s EXCEPT !.v[op_x(s.opcode)] = BitAnd(AsU8(s.opcode), \h00FF), !.pc = @ + 2]

\* 0x7000
op_7XNN(s) ==
    LET nn == BitAnd(s.opcode, \h00FF)
        x == op_x(s.opcode)
        result == s.v[x] + nn
    IN  [s EXCEPT !.v[x] = AsU8(result), !.pc = @ + 2]

\* 0x8000 family: x and y are decoded once, before the inner match
op_8XY0(s, x, y) == [s EXCEPT !.v[x] = s.v[y], !.pc = @ + 2]

op_8XY1(s, x, y) == [s EXCEPT !.v[x] = BitOr(s.v[x], s.v[y]), !.pc = @ + 2]

op_8XY2(s, x, y) == [s EXCEPT !.v[x] = BitAnd(s.v[x], s.v[y]), !.pc = @ + 2]

op_8XY3(s, x, y) == [s EXCEPT !.v[x] = BitXor(s.v[x], s.v[y]), !.pc = @ + 2]

\* the flag is written first; `+=` on u8 is a checked addition in a debug build
op_8XY4(s, x, y) ==
    LET flag == IF s.v[Shr(x, 4)] > \hFF - s.v[Shr(x, 8)] THEN 1 ELSE 0
        s1 == [s EXCEPT !.v[15] = flag]
        sum == s1.v[Shr(x, 8)] + s1.v[Shr(y, 4)]
    IN  IF sum > 255 /\ s.overflow_checks
        THEN panic(s1)
        ELSE [s1 EXCEPT !.v[Shr(x, 8)] = AsU8(sum), !.pc = @ + 2]

op_8XY5(s, x, y) ==
    LET s1 == [s EXCEPT !.v[15] = IF s.v[x] > s.v[y] THEN 1 ELSE 0]
    IN  [s1 EXCEPT !.v[x] = AsU8(s1.v[x] - s1.v[y] + 256), !.pc = @ + 2]

op_8XY6(s, x, y) ==
    LET s1 == [s EXCEPT !.v[15] = BitAnd(s.v[x], 1)]
    IN  [s1 EXCEPT !.v[x] = Shr(s1.v[x], 1), !.pc = @ + 2]

op_8XY7(s, x, y) ==
    LET s1 == [s EXCEPT !.v[15] = IF s.v[y] > s.v[x] THEN 1 ELSE 0]
    IN  [s1 EXCEPT !.v[x] = AsU8(s1.v[y] - s1.v[x] + 256), !.pc = @ + 2]

op_8XYE(s, x, y) ==
    LET s1 == [s EXCEPT !.v[15] = BitAnd(s.v[x], 128)]
    IN  [s1 EXCEPT !.v[x] = AsU8(s1.v[x] * 2), !.pc = @ + 2]

op_8XYN(s) ==
    LET x == op_x(s.opcode)
        y == op_y(s.opcode)
        low == BitAnd(s.opcode, \h000F)
    IN  CASE low = \h0 -> op_8XY0(s, x, y)
          [] low = \h1 -> op_8XY1(s, x, y)
          [] low = \h2 -> op_8XY2(s, x, y)
          [] low = \h3 -> op_8XY3(s, x, y)
          [] low = \h4 -> op_8XY4(s, x, y)
          [] low = \h5 -> op_8XY5(s, x, y)
          [] low = \h6 -> op_8XY6(s, x, y)
          [] low = \h7 -> op_8XY7(s, x, y)
          [] low = \hE -> op_8XYE(s, x, y)
          [] OTHER -> panic(s)

\* 0x9000
op_9XY0(s) ==
    [s EXCEPT !.pc = @ + (IF s.v[op_x(s.opcode)] # s.v[op_y(s.opcode)] THEN 4 ELSE 2)]

\* 0xA000: `self.i = (self.opcode & 0x0FFF) as u8`
op_ANNN(s) == [s EXCEPT !.i = AsU8(BitAnd(s.opcode, \h0FFF)), !.pc = @ + 2]

\* 0xB000
op_BNNN(s) == [s EXCEPT !.pc = s.v[0] + BitAnd(s.opcode, \h0FFF)]

\* 0xC000: r is the value of rng.gen_range(0, 255), a half-open range
RandomValues == 0 .. 254

op_CXNN(s, r) ==
    LET x == op_x(s.opcode)
        nn == BitAnd(s.opcode, \h00FF)
    IN  [s EXCEPT !.v[x] = AsU8(BitAnd(r, nn)), !.pc = @ + 2]

----------------------------------------------------------------------------
(* 0xD000: the draw loops.  Inside the loops `x` and `y` are shadowed by   *)
(* the pixel coordinates; both are computed from the loop counter `byte`.  *)

\* the pixel column and the sprite bit of one iteration of the inner loop
draw_px(s, x, byte) == (s.v[x] + byte) % 64

draw_color(s, byte, bit) == BitAnd(Shr(mem(s.memory, s.i + byte), 7 - bit), 1)

\* the body of the inner loop: `v[0xf] |= color & gfx[y][x]; gfx[y][x] ^= color`
draw_pixel(s, x, py, byte, bit) ==
    LET px == draw_px(s, x, byte)
        color == draw_color(s, byte, bit)
        s1 == [s EXCEPT !.v[15] = BitOr(@, BitAnd(color, pixel(s.gfx, py, px)))]
    IN  [s1 EXCEPT !.gfx = set_pixel(@, py, px, BitXor(pixel(@, py, px), color))]

\* for bit in 0..8 { ... }, from iteration `bit` on, in pixel row py
RECURSIVE draw_bits(_, _, _, _, _)
draw_bits(s, x, py, byte, bit) ==
    IF bit > 7 THEN s
    ELSE draw_bits(draw_pixel(s, x, py, byte, bit), x, py, byte, bit + 1)

\* for byte in 0..n { ... }, from iteration `byte` on
RECURSIVE draw_rows(_, _, _, _, _)
draw_rows(s, x, y, n, byte) ==
    IF byte > n - 1 THEN s
    ELSE LET py == (s.v[y] + byte) % 32
         IN  draw_rows(draw_bits(s, x, py, byte, 0), x, y, n, byte + 1)

op_DXYN(s) ==
    LET s1 == [s EXCEPT !.draw_flag = TRUE]
        x == op_x(s.opcode)
        y == BitAnd(s.opcode, Shr(\h00F0, 4))
        n == BitAnd(s.opcode, \h000F)
        s2 == draw_rows(s1, x, y, n, 0)
    IN  [s2 EXCEPT !.pc = @ + 2]

\* 0xF000 family
op_FX07(s, x) == [s EXCEPT !.v[x] = s.delay_timer, !.pc = @ + 2]

op_FX15(s, x) == [s EXCEPT !.delay_timer = s.v[x], !.pc = @ + 2]

op_FX1E(s, x) == [s EXCEPT !.pc = @ + 2]

\* FX0A, FX18, FX29, FX33, FX55, FX65: unimplemented!(...) runs first
op_FX_unimplemented(s, x) == panic(s)

op_FXNN(s) ==
    LET x == op_x(s.opcode)
        low == BitAnd(s.opcode, \h00FF)
    IN  CASE low = \h07 -> op_FX07(s, x)
          [] low = \h0A -> op_FX_unimplemented(s, x)
          [] low = \h15 -> op_FX15(s, x)
          [] low = \h18 -> op_FX_unimplemented(s, x)
          [] low = \h1E -> op_FX1E(s, x)
          [] low = \h29 -> op_FX_unimplemented(s, x)
          [] low = \h33 -> op_FX_unimplemented(s, x)
          [] low = \h55 -> op_FX_unimplemented(s, x)
          [] low = \h65 -> op_FX_unimplemented(s, x)
          [] OTHER -> panic(s)

\* 0x0000 family: the inner match looks at the low nibble only
op_0NNN(s) ==
    LET low == BitAnd(s.opcode, \h000F)
    IN  CASE low = \h0 -> op_00E0(s)
          [] low = \hE -> op_00EE(s)
          [] OTHER -> panic(s)

\* fn run_opcode; r is the random value drawn by the 0xC000 arm
run_opcode(s, r) ==
    LET top == BitAnd(s.opcode, \hF000)
    IN  CASE top = \h0000 -> op_0NNN(s)
          [] top = \h1000 -> op_1NNN(s)
          [] top = \h2000 -> op_2NNN(s)
          [] top = \h3000 -> op_3XNN(s)
          [] top = \h6000 -> op_6XNN(s)
          [] top = \h7000 -> op_7XNN(s)
          [] top = \h8000 -> op_8XYN(s)
          [] top = \h9000 -> op_9XY0(s)
          [] top = \hA000 -> op_ANNN(s)
          [] top = \hB000 -> op_BNNN(s)
          [] top = \hC000 -> op_CXNN(s, r)
          [] top = \hD000 -> op_DXYN(s)
          [] top = \hF000 -> op_FXNN(s)
          [] OTHER -> panic(s)

----------------------------------------------------------------------------
(* fn cycle *)

\* a scan that keeps the last pressed key instead of stopping at the first
FirstPressed_no_break(keys) == CHOOSE k \in 0 .. 15 : keys[k] /\ \A j \in k + 1 .. 15 : ~keys[j]

\* the lowest pressed key of a snapshot (the scan of `for i in 0..keypad.len()`)
FirstPressed(keys) == CHOOSE k \in 0 .. 15 : keys[k] /\ \A j \in 0 .. k - 1 : ~keys[j]

\* a waiting branch that lets the timers run while no key is down
cycle_waiting_ticking(s, keys) ==
    IF \E k \in 0 .. 15 : keys[k]
    THEN IF s.keypad_register > NumRegs - 1
         THEN panic([s EXCEPT !.keypad_waiting = FALSE])
         ELSE [s EXCEPT !.keypad_waiting = FALSE,
                        !.v[s.keypad_register] = FirstPressed(keys)]
    ELSE [s EXCEPT !.delay_timer = IF @ > 0 THEN @ - 1 ELSE @,
                   !.sound_timer = IF @ > 0 THEN @ - 1 ELSE @]

\* `if self.keypad_waiting { for i in 0..keypad.len() { if keypad[i] { .. break } } }`
cycle_waiting(s, keys) ==
    IF \E k \in 0 .. 15 : keys[k]
    THEN IF s.keypad_register > NumRegs - 1
         THEN panic([s EXCEPT !.keypad_waiting = FALSE])
         ELSE [s EXCEPT !.keypad_waiting = FALSE,
                        !.v[s.keypad_register] = FirstPressed(keys)]
    ELSE s

\* timers decremented without the `> 0` tests: a u8 at 0 overflows
tick_timers_unguarded(s) ==
    IF s.delay_timer = 0 \/ s.sound_timer = 0
    THEN IF s.overflow_checks
         THEN panic(s)
         ELSE [s EXCEPT !.delay_timer = (@ + 255) % 256,
                        !.sound_timer = (@ + 255) % 256]
    ELSE [s EXCEPT !.delay_timer = @ - 1, !.sound_timer = @ - 1]

\* `if self.delay_timer > 0 { .. -= 1 }  if self.sound_timer > 0 { .. -= 1 }`
tick_timers(s) ==
    [s EXCEPT !.delay_timer = IF @ > 0 THEN @ - 1 ELSE @,
              !.sound_timer = IF @ > 0 THEN @ - 1 ELSE @]

cycle_running(s, r) ==
    LET fetched == get_opcode(tick_timers(s))
    IN  IF fetched.panicked THEN fetched ELSE run_opcode(fetched, r)

cycle(s, keys, r) ==
    IF s.keypad_waiting THEN cycle_waiting(s, keys) ELSE cycle_running(s, r)

----------------------------------------------------------------------------
(* main: `while let Ok(keypad) = input.poll() { cpu.cycle(keypad); ... }`  *)

NoKeys == [k \in 0 .. 15 |-> FALSE]

KeypadSnapshots ==
    { [k \in 0 .. 15 |-> k \in pressed] :
        pressed \in { p \in SUBSET (0 .. 15) : Cardinality(p) <= MaxKeysDown } }

\* the word the next running cycle fetches (when the fetch is in bounds)
Fetched == mem(memory, pc) * 256 + mem(memory, pc + 1)

FetchInBounds == pc + 1 <= MemSize - 1

\* the snapshot is read only while waiting, the random value only by 0xC000
SnapshotsRead == IF keypad_waiting THEN KeypadSnapshots ELSE { NoKeys }

RandomsRead ==
    IF ~keypad_waiting /\ FetchInBounds /\ BitAnd(Fetched, \hF000) = \hC000
    THEN RandomValues
    ELSE { 0 }

Commit(t) ==
    /\ opcode' = t.opcode
    /\ v' = t.v
    /\ i' = t.i
    /\ pc' = t.pc
    /\ delay_timer' = t.delay_timer
    /\ sound_timer' = t.sound_timer
    /\ stack' = t.stack
    /\ sp' = t.sp
    /\ gfx' = t.gfx
    /\ draw_flag' = t.draw_flag
    /\ keypad_waiting' = t.keypad_waiting
    /\ keypad_register' = t.keypad_register
    /\ panicked' = t.panicked

\* one iteration of main's loop, followed for at most `limit` iterations
CycleWithin(limit) ==
    /\ main_pc = "loop"
    /\ ~panicked
    /\ cycles < limit
    /\ \E keys \in SnapshotsRead, r \in RandomsRead :
           /\ polled' = keys
           /\ Commit(cycle(Self, keys, r))
    /\ cycles' = cycles + 1
    /\ UNCHANGED <<memory, key, keypad, overflow_checks, main_pc>>

Cycle == CycleWithin(MaxCycles)

Next == Load \/ Cycle

\* the types of the CPU's fields
TypeOK ==
    /\ opcode \in 0 .. 65535
    /\ DOMAIN memory \subseteq ProgramStart .. MemSize - 1
    /\ \A a \in DOMAIN memory : memory[a] \in 0 .. 255
    /\ v \in [0 .. NumRegs - 1 -> 0 .. 255]
    /\ i \in 0 .. 255
    /\ pc \in Nat
    /\ delay_timer \in 0 .. 255
    /\ sound_timer \in 0 .. 255
    /\ stack \in [0 .. StackSize - 1 -> Nat]
    /\ sp \in Nat
    /\ gfx \subseteq (0 .. GfxRows - 1) \X (0 .. GfxCols - 1)
    /\ draw_flag \in BOOLEAN
    /\ keypad_waiting \in BOOLEAN
    /\ keypad_register \in Nat
    /\ panicked \in BOOLEAN
    /\ polled \in [0 .. 15 -> BOOLEAN]

Spec == Init /\ [][Next]_vars

----------------------------------------------------------------------------
(* The waiting branch of cycle.  Nothing in run_opcode sets keypad_waiting  *)
(* (the FX0A arm is unimplemented!), so under main alone the branch never  *)
(* runs.  The latch is a pair of pub fields of a pub struct: here the      *)
(* owner of the CPU sets them, once, after ArmAfter cycles, and goes on    *)
(* calling cycle.                                                          *)

\* number of cycles run before the owner sets the latch
ArmAfter == 2

\* the registers a key wait can name
LatchRegisters == 0 .. NumRegs - 1

\* ROM images of the runs with a latch: none, and one that starts the delay timer
WaitingRoms == { <<>>, << \h6105, \hF015 >>, << \h00E0 >> }

LoadWaiting ==
    /\ main_pc = "load"
    /\ \E rom \in WaitingRoms : memory' = load(memory, rom)
    /\ main_pc' = "loop"
    /\ UNCHANGED <<opcode, v, i, pc, delay_timer, sound_timer, stack, sp, key,
                   gfx, draw_flag, keypad, keypad_waiting, keypad_register,
                   panicked, overflow_checks, polled, cycles>>

\* `cpu.keypad_waiting = true; cpu.keypad_register = x;` by the CPU's owner
ArmLatch ==
    /\ main_pc = "loop"
    /\ ~panicked
    /\ ~keypad_waiting
    /\ cycles = ArmAfter
    /\ keypad_waiting' = TRUE
    /\ keypad_register' \in LatchRegisters
    /\ UNCHANGED <<opcode, memory, v, i, pc, delay_timer, sound_timer, stack, sp,
                   key, gfx, draw_flag, keypad, panicked, overflow_checks,
                   main_pc, polled, cycles>>

NextWaiting == LoadWaiting \/ Cycle \/ ArmLatch

SpecWaiting == Init /\ [][NextWaiting]_vars

----------------------------------------------------------------------------
(* Vocabulary of the properties *)

\* this step is a cycle that fetches the word Fetched and runs it
RunsOne == cycles' = cycles + 1 /\ ~keypad_waiting /\ FetchInBounds

\* the fields of an instruction word as the instruction set defines them
FieldTop(w) == w \div 4096
FieldX(w) == (w \div 256) % 16
FieldY(w) == (w \div 16) % 16
FieldN(w) == w % 16
FieldNN(w) == w % 256
FieldNNN(w) == w % 4096

----------------------------------------------------------------------------
\* the state right after a call 2NNN made at address p: opcode is the call,
\* pc is NNN, stack[sp - 1] is p + 2 and sp - 1 is the depth before the call
JustCalled ==
    /\ cycles > 0 /\ ~panicked
    /\ FieldTop(opcode) = 2 /\ pc = FieldNNN(opcode) /\ sp >= 1

\* C1: a call 2NNN at address p followed immediately by the return 00EE found
\* at NNN leaves the program counter at p + 2 and the stack pointer at its
\* value before the call.
C1_CallThenReturn ==
    [][ (JustCalled /\ RunsOne /\ Fetched = \h00EE)
            => (~panicked' /\ pc' = stack[sp - 1] /\ sp' = sp - 1) ]_vars

\* the instruction families whose handlers call op_x, and op_y
UsesX(w) == FieldTop(w) \in {3, 6, 7, 8, 9, 12, 13, 15}

UsesY(w) == FieldTop(w) \in {8, 9}

\* C2: for every instruction word run, the register selector x the executor
\* uses is bits 8-11 of the word and the selector y is bits 4-7, and 6XNN
\* writes NN into register X and into no other register.
C2_FieldDecode ==
    [][ RunsOne =>
          /\ UsesX(Fetched) => op_x(Fetched) = FieldX(Fetched)
          /\ UsesY(Fetched) => op_y(Fetched) = FieldY(Fetched)
          /\ FieldTop(Fetched) = 6 =>
                 v' = [v EXCEPT ![FieldX(Fetched)] = FieldNN(Fetched)] ]_vars

ScenarioLoaded == main_pc = "loop" /\ memory = load(NothingLoaded, ScenarioRom)

\* C3: from a fresh interpreter loaded with 6005 6103 8014 00E0, four cycles
\* run without halting and leave every pixel 0, the dirty flag set and the
\* program counter at 0x208.
C3_Scenario ==
    ScenarioLoaded =>
        /\ cycles <= 4 => ~panicked
        /\ cycles = 4 => (gfx = {} /\ draw_flag /\ pc = \h208)

C3_Witness == ScenarioLoaded /\ cycles = 4 /\ ~panicked

\* the instructions that are no jump, call, return, conditional skip or key-wait
IsStraightLine(w) ==
    \/ w = \h00E0
    \/ FieldTop(w) \in {6, 7, 10, 12, 13}
    \/ FieldTop(w) = 8 /\ FieldN(w) \in (0 .. 7) \cup {14}
    \/ FieldTop(w) = 15 /\ FieldNN(w) \in {\h07, \h15, \h18, \h1E, \h29, \h33, \h55, \h65}

\* C4: one non-waiting cycle on an instruction that is not a jump, call,
\* return, conditional skip or key-wait completes without halting and
\* advances the program counter by exactly 2.
C4_StraightLineAdvancesBy2 ==
    [][ (RunsOne /\ IsStraightLine(Fetched)) => (~panicked' /\ pc' = pc + 2) ]_vars

\* C5: 7XNN sets Vx to (Vx + NN) mod 256 and 8XY4 sets Vx to (Vx + Vy) mod 256,
\* neither halting, and after 8XY4 VF is 1 iff the sum of the earlier Vx and
\* Vy exceeds 255, else 0.  (With X = F the flag lands in Vx itself.)
C5_AddWraps ==
    [][ RunsOne =>
          LET w == Fetched
              X == FieldX(w)
              Y == FieldY(w)
          IN  /\ FieldTop(w) = 7 =>
                     ~panicked' /\ v'[X] = (v[X] + FieldNN(w)) % 256
              /\ (FieldTop(w) = 8 /\ FieldN(w) = 4) =>
                     /\ ~panicked'
                     /\ X # 15 => v'[X] = (v[X] + v[Y]) % 256
                     /\ v'[15] = IF v[X] + v[Y] > 255 THEN 1 ELSE 0 ]_vars

\* C6: 8XY5 sets VF to 1 if the earlier Vx >= Vy, else 0, and Vx to
\* (Vx - Vy) mod 256; 8XY7 sets VF to 1 if the earlier Vy >= Vx, else 0, and
\* Vx to (Vy - Vx) mod 256.
C6_SubNoBorrow ==
    [][ RunsOne =>
          LET w == Fetched
              X == FieldX(w)
              Y == FieldY(w)
          IN  /\ (FieldTop(w) = 8 /\ FieldN(w) = 5) =>
                     /\ v'[15] = IF v[X] >= v[Y] THEN 1 ELSE 0
                     /\ X # 15 => v'[X] = (v[X] - v[Y] + 256) % 256
              /\ (FieldTop(w) = 8 /\ FieldN(w) = 7) =>
                     /\ v'[15] = IF v[Y] >= v[X] THEN 1 ELSE 0
                     /\ X # 15 => v'[X] = (v[Y] - v[X] + 256) % 256 ]_vars

\* C7: 8XY6 sets VF to the least-significant bit of the earlier Vx and Vx to
\* Vx >> 1; 8XYE sets VF to the most-significant bit of the earlier Vx, as 0
\* or 1, and Vx to (Vx << 1) mod 256; VF is 0 or 1 afterwards.
C7_ShiftFlag ==
    [][ RunsOne =>
          LET w == Fetched
              X == FieldX(w)
          IN  /\ (FieldTop(w) = 8 /\ FieldN(w) = 6) =>
                     /\ v'[15] = v[X] % 2
                     /\ X # 15 => v'[X] = v[X] \div 2
              /\ (FieldTop(w) = 8 /\ FieldN(w) = 14) =>
                     /\ v'[15] = v[X] \div 128
                     /\ X # 15 => v'[X] = (v[X] * 2) % 256
              /\ (FieldTop(w) = 8 /\ FieldN(w) \in {6, 14}) => v'[15] \in {0, 1} ]_vars

\* TurnsOff: the draw about to run changes some pixel from 1 to 0 at some
\* moment, i.e. some sprite bit 1 is XORed into a pixel that is 1 just then
RECURSIVE BitsTurnOff(_, _, _, _, _)
BitsTurnOff(s, x, py, byte, bit) ==
    IF bit > 7 THEN FALSE
    ELSE \/ draw_color(s, byte, bit) = 1 /\ pixel(s.gfx, py, draw_px(s, x, byte)) = 1
         \/ BitsTurnOff(draw_pixel(s, x, py, byte, bit), x, py, byte, bit + 1)

RECURSIVE RowsTurnOff(_, _, _, _, _)
RowsTurnOff(s, x, y, n, byte) ==
    IF byte > n - 1 THEN FALSE
    ELSE LET py == (s.v[y] + byte) % 32
         IN  \/ BitsTurnOff(s, x, py, byte, 0)
             \/ RowsTurnOff(draw_bits(s, x, py, byte, 0), x, y, n, byte + 1)

TurnsOff == RowsTurnOff(Self, op_x(Fetched), op_x(Fetched), FieldN(Fetched), 0)

\* C8: after any DXYN, VF is 1 iff the draw changed at least one pixel from
\* 1 to 0, and 0 otherwise, whatever value VF held before the draw.
C8_CollisionFlag ==
    [][ (RunsOne /\ FieldTop(Fetched) = 13) =>
            v'[15] = IF TurnsOff THEN 1 ELSE 0 ]_vars

\* bit c, most-significant first, of sprite row r; the pixels the set bits fall on
SpriteBit(r, c) == (mem(memory, i + r) \div (2 ^ (7 - c))) % 2

SpritePixels(w) ==
    { <<(v[FieldY(w)] + r) % 32, (v[FieldX(w)] + c) % 64>> :
        <<r, c>> \in { rc \in (0 .. FieldN(w) - 1) \X (0 .. 7) :
                          SpriteBit(rc[1], rc[2]) = 1 } }

\* C9: DXYN XORs bit c (most-significant first) of memory[I + r] into the
\* pixel at column (Vx + c) mod 64 and row (Vy + r) mod 32, for every row r
\* in 0..N-1 and c in 0..7, and changes no other pixel.
C9_DrawGeometry ==
    [][ (RunsOne /\ FieldTop(Fetched) = 13) =>
            LET lit == SpritePixels(Fetched)
            IN  gfx' = (gfx \ lit) \cup (lit \ gfx) ]_vars

\* C10: FX0A run in a RUNNING cycle sets the waiting latch with destination
\* register x, without halting and without advancing the program counter.
C10_KeyWaitEntered ==
    [][ (RunsOne /\ FieldTop(Fetched) = 15 /\ FieldNN(Fetched) = \h0A) =>
            /\ ~panicked'
            /\ keypad_waiting'
            /\ keypad_register' = FieldX(Fetched)
            /\ pc' = pc ]_vars

----------------------------------------------------------------------------
(* Runs long enough to fill the stack: ROMs of calls and returns only.     *)

\* number of cycles main's loop is followed for on the call/return ROMs
MaxDeepCycles == 17

\* a call to itself, a call to the next word, a return
StackWords == { \h2200, \h2202, \h00EE }

StackRoms == SeqsUpTo(StackWords, MaxRomWords) \ { <<>> }

LoadStack ==
    /\ main_pc = "load"
    /\ \E rom \in StackRoms : memory' = load(memory, rom)
    /\ main_pc' = "loop"
    /\ UNCHANGED <<opcode, v, i, pc, delay_timer, sound_timer, stack, sp, key,
                   gfx, draw_flag, keypad, keypad_waiting, keypad_register,
                   panicked, overflow_checks, polled, cycles>>

DeepCycle == CycleWithin(MaxDeepCycles)

NextStack == LoadStack \/ DeepCycle

SpecStack == Init /\ [][NextStack]_vars

----------------------------------------------------------------------------
(* Runs of the random instruction with every mask bit set.                 *)

\* CXNN with NN = 0xFF on VF and with NN = 0x03 on V3 (words whose X is
\* also their low nibble, the nibble op_x reads)
RandRoms == { << \hCFFF >>, << \hC303 >>, << \hC303, \hCFFF >> }

LoadRand ==
    /\ main_pc = "load"
    /\ \E rom \in RandRoms : memory' = load(memory, rom)
    /\ main_pc' = "loop"
    /\ UNCHANGED <<opcode, v, i, pc, delay_timer, sound_timer, stack, sp, key,
                   gfx, draw_flag, keypad, keypad_waiting, keypad_register,
                   panicked, overflow_checks, polled, cycles>>

NextRand == LoadRand \/ Cycle

SpecRand == Init /\ [][NextRand]_vars

----------------------------------------------------------------------------
\* this step is a cycle run with the latch set, on the snapshot polled'
WaitsOne == cycles' = cycles + 1 /\ keypad_waiting

KeyDown(keys) == \E k \in 0 .. 15 : keys[k]

\* C11: a waiting cycle whose snapshot has a key pressed clears the latch
\* and writes to the destination register the lowest index whose key is
\* pressed, however many keys are pressed.
C11_LowestKeyResolves ==
    [][ (WaitsOne /\ KeyDown(polled')) =>
            /\ ~keypad_waiting'
            /\ ~panicked'
            /\ polled'[v'[keypad_register]]
            /\ \A j \in 0 .. 15 : polled'[j] => v'[keypad_register] <= j ]_vars

\* a wait on register 5, resolved on its second cycle with keys 3 and 7 down
C11_Witness ==
    /\ cycles = ArmAfter + 2
    /\ ~keypad_waiting
    /\ keypad_register = 5
    /\ polled[3] /\ polled[7]
    /\ v[5] = 3

\* C12: the cycle that resolves a key wait advances the program counter by
\* 2, past the key-wait instruction.
C12_ResolveAdvancesPc ==
    [][ (WaitsOne /\ KeyDown(polled')) => pc' = pc + 2 ]_vars

\* C18: a waiting cycle whose snapshot has no key pressed changes nothing:
\* program counter, opcode, registers, index, stack, stack pointer, memory,
\* framebuffer, dirty flag, both timers and the latch stay as they were.
C18_IdleWaitChangesNothing ==
    [][ (WaitsOne /\ ~KeyDown(polled')) =>
            /\ ~panicked'
            /\ keypad_waiting'
            /\ UNCHANGED <<pc, opcode, v, i, stack, sp, memory, gfx, draw_flag,
                           delay_timer, sound_timer, keypad_register>> ]_vars

\* two idle waiting cycles in a row, with the delay timer set
C18_Witness ==
    /\ keypad_waiting
    /\ cycles = ArmAfter + 2
    /\ delay_timer > 0
    /\ pc > ProgramStart

----------------------------------------------------------------------------
\* the instruction words that match a pattern of the instruction set
InTable(w) ==
    LET top == FieldTop(w)
    IN  CASE top = 0 -> w \in { \h00E0, \h00EE }
          [] top \in { 1, 2, 3, 6, 7, 10, 11, 12, 13 } -> TRUE
          [] top = 8 -> FieldN(w) \in (0 .. 7) \cup { 14 }
          [] top = 9 -> FieldN(w) = 0
          [] top = 15 -> FieldNN(w) \in { \h07, \h0A, \h15, \h18, \h1E, \h29,
                                          \h33, \h55, \h65 }
          [] OTHER -> FALSE

\* C13: a fetched word that matches no pattern of the instruction set halts
\* the interpreter and changes neither the framebuffer, the registers, the
\* stack nor the program counter.
C13_UnknownWordHalts ==
    [][ (RunsOne /\ ~InTable(Fetched)) =>
            /\ panicked'
            /\ UNCHANGED <<gfx, v, i, stack, sp, pc>> ]_vars

\* C15: after ANNN the index register holds the whole 12-bit NNN.
C15_IndexHoldsNNN ==
    [][ (RunsOne /\ FieldTop(Fetched) = 10) => i' = FieldNNN(Fetched) ]_vars

\* C16: after FX1E the index register holds I + Vx (values before the
\* instruction) and every V register, VF included, is unchanged.
C16_AddToIndex ==
    [][ (RunsOne /\ FieldTop(Fetched) = 15 /\ FieldNN(Fetched) = \h1E) =>
            /\ i' = i + v[FieldX(Fetched)]
            /\ v' = v ]_vars

\* C20: in every state in which the interpreter has not halted, the program
\* counter is an even address in [0x200, 0xFFE].
C20_PcEvenInRange ==
    ~panicked => (pc % 2 = 0 /\ pc >= \h200 /\ pc <= \hFFE)

----------------------------------------------------------------------------
\* a timer one cycle later: down by one, held at zero
TimerDown(t) == IF t > 0 THEN t - 1 ELSE 0

\* this step is a cycle run with the latch clear
TicksOne == cycles' = cycles + 1 /\ ~keypad_waiting

\* the cycle executes FX15 / FX07
SetsDelay == FetchInBounds /\ FieldTop(Fetched) = 15 /\ FieldNN(Fetched) = \h15
ReadsDelay == FetchInBounds /\ FieldTop(Fetched) = 15 /\ FieldNN(Fetched) = \h07

\* C19: every non-waiting cycle takes the sound timer and, unless it
\* executes FX15, the delay timer one down, holding them at 0; the
\* decrement comes before the instruction (FX07 reads the decremented
\* value); and the decrement does so for every timer value 0..255, without
\* wrapping (evaluated in the cycles that find the delay timer running).
C19_TimersCountDown ==
    [][ TicksOne =>
            /\ sound_timer' = TimerDown(sound_timer)
            /\ SetsDelay \/ delay_timer' = TimerDown(delay_timer)
            /\ ReadsDelay => v'[op_x(Fetched)] = TimerDown(delay_timer)
            /\ delay_timer > 0 => \A t \in 0 .. 255 :
                  LET after == tick_timers([Self EXCEPT !.delay_timer = t,
                                                        !.sound_timer = t])
                  IN  /\ after.delay_timer = TimerDown(t)
                      /\ after.sound_timer = TimerDown(t)
                      /\ ~after.panicked ]_vars

\* the delay timer set to 5 by FX15, read back as 4 by FX07 in the next
\* cycle, and taken to 3 by the cycle after that
C19_Witness ==
    /\ cycles = 4
    /\ opcode = 0
    /\ v[5] = 5
    /\ v[7] = 4
    /\ delay_timer = 3

----------------------------------------------------------------------------
\* the cycle executes a call on a full stack / a return on an empty one
CallOnFull == RunsOne /\ FieldTop(Fetched) = 2 /\ sp = StackSize
ReturnOnEmpty == RunsOne /\ Fetched = \h00EE /\ sp = 0

\* C14: a call with 16 return addresses on the stack and a return with an
\* empty stack halt the interpreter: no stack entry is written, the program
\* counter stays on the faulting instruction, the call leaves the stack
\* pointer at 16, and while the interpreter runs the stack pointer is
\* within 0..16.
C14_StackFaultsHalt ==
    [][ /\ CallOnFull => (panicked' /\ stack' = stack /\ sp' = sp /\ pc' = pc)
        /\ ReturnOnEmpty => (panicked' /\ stack' = stack /\ pc' = pc)
        /\ ~panicked' => sp' \in 0 .. StackSize ]_vars

\* halted on the 17th call, the 16 return addresses of the calls before it intact
C14_Witness ==
    /\ panicked
    /\ FieldTop(opcode) = 2
    /\ sp = StackSize
    /\ \A k \in 0 .. StackSize - 1 : stack[k] = ProgramStart + 2

----------------------------------------------------------------------------
\* the next cycle executes CXNN
RunsRandom ==
    /\ main_pc = "loop"
    /\ ~panicked
    /\ ~keypad_waiting
    /\ cycles < MaxCycles
    /\ FetchInBounds
    /\ FieldTop(Fetched) = 12

\* the results of masking every byte value with NN
MaskedBytes(nn) == { BitAnd(r, nn) : r \in 0 .. 255 }

\* the values Vx holds in the states the next cycle can lead to
RandomOutcomes ==
    { cycle(Self, NoKeys, r).v[FieldX(Fetched)] : r \in RandomsRead }

\* C17: the values Vx can hold after CXNN are exactly the r AND NN for r in
\* 0..255 (with NN = 0xFF, every byte value up to 255).
C17_RandomCoversByte ==
    RunsRandom => RandomOutcomes = MaskedBytes(FieldNN(Fetched))

====
